---- MODULE Spec2Model ----
(***************************************************************************)
(* Model of the forecasting and event-effect overlay engine of the         *)
(* Ethiopia financial-inclusion dashboard (src/src/dashboard/app.py).      *)
(*                                                                         *)
(* Floats are modelled exactly: a float is a rational <<num, den>> in      *)
(* lowest terms with den > 0, and NaN is <<0, 0>>. A confidence bound,     *)
(* which involves a square root, is the record                             *)
(* [base, coef, radicand] standing for base + coef * sqrt(radicand).       *)
(* A timestamp is <<year, month>>; NaT is <<0, 0>>. A missing string cell  *)
(* is "NaN". A raw text cell that is parsed (lag_months) is a sequence of  *)
(* one-character strings.                                                  *)
(***************************************************************************)
EXTENDS Integers, Sequences, FiniteSets, TLC

VARIABLES
    pc,              \* position of the call or of the dashboard script
    data,            \* the record table returned by load_data
    series_df,       \* fit_linear_forecast's series argument
    years,           \* fit_linear_forecast's target-year list
    code,            \* indicator code argument (trend_growth, build_event_effects)
    gender,          \* gender argument (trend_growth)
    ret,             \* value returned by the function that was called
    outcome,         \* "none", "returned" or "raised"
    access_fc,       \* dashboard: access forecast table
    usage_fc,        \* dashboard: usage forecast table
    usage_label,     \* dashboard: label of the series the usage forecast is fitted on
    use_events,      \* dashboard: the "Include event effects" checkbox
    access_effects,  \* dashboard: effect mapping added to the access forecast
    usage_effects,   \* dashboard: effect mapping added to the usage forecast
    scenario         \* dashboard: the selected scenario

vars == <<pc, data, series_df, years, code, gender, ret, outcome, access_fc, usage_fc,
          usage_label, use_events, access_effects, usage_effects, scenario>>

dashVars == <<access_fc, usage_fc, usage_label, use_events, access_effects,
              usage_effects, scenario>>

-----------------------------------------------------------------------------
(* Exact arithmetic standing for float64 arithmetic.                        *)

Abs(n) == IF n < 0 THEN -n ELSE n

RECURSIVE GCD(_, _)
GCD(a, b) == IF b = 0 THEN a ELSE GCD(b, a % b)

NaN == <<0, 0>>

IsNaN(x) == x[2] = 0

Rat(n, d) ==
    IF d = 0 THEN NaN
    ELSE LET g == GCD(Abs(n), Abs(d))
             s == IF d < 0 THEN -1 ELSE 1
         IN  <<(s * n) \div g, (s * d) \div g>>

Int2Rat(n) == <<n, 1>>

Zero == <<0, 1>>

RAdd(x, y) == IF IsNaN(x) \/ IsNaN(y) THEN NaN
              ELSE Rat(x[1] * y[2] + y[1] * x[2], x[2] * y[2])

RSub(x, y) == IF IsNaN(x) \/ IsNaN(y) THEN NaN
              ELSE Rat(x[1] * y[2] - y[1] * x[2], x[2] * y[2])

RMul(x, y) == IF IsNaN(x) \/ IsNaN(y) THEN NaN
              ELSE Rat(x[1] * y[1], x[2] * y[2])

RDiv(x, y) == IF IsNaN(x) \/ IsNaN(y) \/ y[1] = 0 THEN NaN
              ELSE Rat(x[1] * y[2], x[2] * y[1])

RECURSIVE RSum(_)
RSum(s) == IF s = <<>> THEN Zero ELSE RAdd(Head(s), RSum(Tail(s)))

\* base + coef * sqrt(radicand); a zero term is dropped, NaN propagates.
Surd(base, coef, radicand) ==
    IF IsNaN(base) \/ IsNaN(coef) \/ IsNaN(radicand)
    THEN [base |-> NaN, coef |-> Zero, radicand |-> Zero]
    ELSE IF coef = Zero \/ radicand = Zero
    THEN [base |-> base, coef |-> Zero, radicand |-> Zero]
    ELSE [base |-> base, coef |-> coef, radicand |-> radicand]

NaNSurd == Surd(NaN, Zero, Zero)

RECURSIVE SeqsUpTo(_, _)
SeqsUpTo(S, n) ==
    IF n = 0 THEN {<<>>}
    ELSE LET shorter == SeqsUpTo(S, n - 1)
         IN  shorter \cup {Append(s, x) : s \in {t \in shorter : Len(t) = n - 1}, x \in S}

-----------------------------------------------------------------------------
(* fit_linear_forecast                                                      *)

\* dropna(subset=["year", "value_numeric"])
DropnaYearValue(df) ==
    SelectSeq(df, LAMBDA r : ~IsNaN(r.year) /\ ~IsNaN(r.value_numeric))

\* np.polyfit(X, y, 1) as <<slope, intercept>>: the least-squares line. When
\* every x is the same the system has rank 1 and polyfit (lstsq on the
\* column-scaled Vandermonde matrix) returns the minimum-norm solution,
\* slope = mean(y) / (2x), intercept = mean(y) / 2.
Polyfit(X, y) ==
    LET n   == Len(X)
        N   == Int2Rat(n)
        Sx  == RSum(X)
        Sy  == RSum(y)
        Sxx == RSum([i \in 1..n |-> RMul(X[i], X[i])])
        Sxy == RSum([i \in 1..n |-> RMul(X[i], y[i])])
        D   == RSub(RMul(N, Sxx), RMul(Sx, Sx))
    IN  IF D # Zero
        THEN LET slope == RDiv(RSub(RMul(N, Sxy), RMul(Sx, Sy)), D)
             IN  <<slope, RDiv(RSub(Sy, RMul(slope, Sx)), N)>>
        ELSE LET ybar == RDiv(Sy, N)
             IN  <<RDiv(ybar, RMul(Int2Rat(2), X[1])), RDiv(ybar, Int2Rat(2))>>

\* residuals.std(ddof=1) squared
VarDdof1(res) ==
    LET n    == Len(res)
        mean == RDiv(RSum(res), Int2Rat(n))
        dev  == [i \in 1..n |-> RMul(RSub(res[i], mean), RSub(res[i], mean))]
    IN  RDiv(RSum(dev), Int2Rat(n - 1))

\* the 1.96 of the confidence band
Z95 == Rat(196, 100)

\* a fit of degree 0: the mean, with no slope
FitPolyfitDegree0(X, y) == <<Zero, RDiv(RSum(y), Int2Rat(Len(y)))>>

FitCoefficients(X, y) == Polyfit(X, y)

FitTooFewWrong(df) == Len(df) < 1

FitTooFew(df) == Len(df) < 2

fit_linear_forecast(sdf, yrs) ==
    LET df == DropnaYearValue(sdf)
        X  == [i \in 1..Len(df) |-> df[i].year]
        y  == [i \in 1..Len(df) |-> df[i].value_numeric]
    IN  IF FitTooFew(df)
        THEN [i \in 1..Len(yrs) |->
                [year |-> yrs[i], forecast |-> NaN, ci_low |-> NaNSurd, ci_high |-> NaNSurd]]
        ELSE LET coef      == FitCoefficients(X, y)
                 slope     == coef[1]
                 intercept == coef[2]
                 preds     == [i \in 1..Len(yrs) |->
                                 RAdd(intercept, RMul(slope, Int2Rat(yrs[i])))]
                 residuals == [i \in 1..Len(X) |->
                                 RSub(y[i], RAdd(intercept, RMul(slope, X[i])))]
                 sigma2    == IF Len(residuals) > 1 THEN VarDdof1(residuals) ELSE Zero
             IN  [i \in 1..Len(yrs) |->
                    [year     |-> yrs[i],
                     forecast |-> preds[i],
                     ci_low   |-> Surd(preds[i], RSub(Zero, Z95), sigma2),
                     ci_high  |-> Surd(preds[i], Z95, sigma2)]]

-----------------------------------------------------------------------------
(* Calls of fit_linear_forecast on bounded inputs.                          *)

MaxPoints == 3

SeriesYears == {Int2Rat(2018), Int2Rat(2019), Int2Rat(2020), NaN}

SeriesValues == {Int2Rat(10), Int2Rat(20), Int2Rat(30), NaN}

SeriesRows == [year : SeriesYears, value_numeric : SeriesValues]

TargetYearLists == {<<>>, <<2023>>, <<2025, 2023>>, <<2025, 2026, 2027>>}

DashIdle ==
    /\ access_fc = <<>>
    /\ usage_fc = <<>>
    /\ usage_label = "NaN"
    /\ use_events = FALSE
    /\ access_effects = <<>>
    /\ usage_effects = <<>>
    /\ scenario = "NaN"

InitFit ==
    /\ pc = "call"
    /\ data = <<>>
    /\ series_df \in SeqsUpTo(SeriesRows, MaxPoints)
    /\ years \in TargetYearLists
    /\ code = "NaN"
    /\ gender = "NaN"
    /\ ret = <<>>
    /\ outcome = "none"
    /\ DashIdle

CallFit ==
    /\ pc = "call"
    /\ ret' = fit_linear_forecast(series_df, years)
    /\ outcome' = "returned"
    /\ pc' = "done"
    /\ UNCHANGED <<data, series_df, years, code, gender>>
    /\ UNCHANGED dashVars

NextFit == CallFit

SpecFit == InitFit /\ [][NextFit]_vars

-----------------------------------------------------------------------------
(* Claims about fit_linear_forecast, checked under SpecFit.                 *)

\* Rows of the series argument that have both a year and a value.
ValidPoints == {i \in 1..Len(series_df) :
                  ~IsNaN(series_df[i].year) /\ ~IsNaN(series_df[i].value_numeric)}

\* The valid points have pairwise distinct years and lie on one line, the
\* line through the two valid points of lowest index.
FirstValid == CHOOSE i \in ValidPoints : \A j \in ValidPoints : i <= j

SecondValid == CHOOSE i \in ValidPoints \ {FirstValid} :
                 \A j \in ValidPoints \ {FirstValid} : i <= j

LineSlope == RDiv(RSub(series_df[SecondValid].value_numeric, series_df[FirstValid].value_numeric),
                  RSub(series_df[SecondValid].year, series_df[FirstValid].year))

LineAt(t) == RAdd(series_df[FirstValid].value_numeric,
                  RMul(LineSlope, RSub(t, series_df[FirstValid].year)))

PerfectlyLinear ==
    /\ Cardinality(ValidPoints) >= 2
    /\ \A i, j \in ValidPoints : i # j => series_df[i].year # series_df[j].year
    /\ \A i \in ValidPoints : series_df[i].value_numeric = LineAt(series_df[i].year)

\* C4: with fewer than 2 rows that have both year and value_numeric, the call
\* returns one row per requested target year, in the requested order, with
\* forecast, ci_low and ci_high all absent.
C4_TooFewPointsAllAbsent ==
    (pc = "done" /\ Cardinality(ValidPoints) < 2) =>
        /\ outcome = "returned"
        /\ Len(ret) = Len(years)
        /\ \A i \in 1..Len(years) :
              /\ ret[i].year = years[i]
              /\ ret[i].forecast = NaN
              /\ ret[i].ci_low = NaNSurd
              /\ ret[i].ci_high = NaNSurd

C4_Witness ==
    /\ pc = "done"
    /\ Cardinality(ValidPoints) = 1
    /\ Len(series_df) = 3
    /\ years = <<2025, 2023>>
    /\ Len(ret) = 2
    /\ ret[1].forecast = NaN

\* C5: for a series of at least 2 points with distinct years lying exactly on
\* a line value = a*year + b, every target year t gets forecast = a*t + b and
\* ci_low = ci_high = forecast.
C5_LinearSeriesExact ==
    (pc = "done" /\ PerfectlyLinear) =>
        /\ Len(ret) = Len(years)
        /\ \A i \in 1..Len(years) :
              /\ ret[i].forecast = LineAt(Int2Rat(years[i]))
              /\ ret[i].ci_low = Surd(ret[i].forecast, Zero, Zero)
              /\ ret[i].ci_high = Surd(ret[i].forecast, Zero, Zero)

C5_Witness ==
    /\ pc = "done"
    /\ series_df = <<[year |-> Int2Rat(2018), value_numeric |-> Int2Rat(10)],
                     [year |-> Int2Rat(2019), value_numeric |-> Int2Rat(20)],
                     [year |-> Int2Rat(2020), value_numeric |-> Int2Rat(30)]>>
    /\ years = <<2023>>
    /\ ret[1].forecast = Int2Rat(60)
    /\ ret[1].ci_low.coef = Zero

\* C9: a call with an empty target-year list fails hard: it does not return
\* a forecast table.
C9_EmptyYearsRaises ==
    (pc = "done" /\ years = <<>>) => outcome = "raised"

-----------------------------------------------------------------------------
(* trend_growth                                                             *)

NaT == <<0, 0>>

IsNaT(d) == d[2] = 0

DateLess(a, b) == a[1] < b[1] \/ (a[1] = b[1] /\ a[2] < b[2])

\* the None a function returns for "absent"
None == <<>>

\* dropna(subset=["value_numeric", "observation_date"])
DropnaValueDate(df) ==
    SelectSeq(df, LAMBDA r : ~IsNaN(r.value_numeric) /\ ~IsNaT(r.observation_date))

RECURSIVE InsertByDate(_, _)
InsertByDate(s, r) ==
    IF s = <<>> THEN <<r>>
    ELSE IF DateLess(r.observation_date, Head(s).observation_date) THEN <<r>> \o s
    ELSE <<Head(s)>> \o InsertByDate(Tail(s), r)

RECURSIVE SortAscending(_)
SortAscending(df) ==
    IF df = <<>> THEN <<>>
    ELSE InsertByDate(SortAscending(SubSeq(df, 1, Len(df) - 1)), df[Len(df)])

SortSkipped(df) == df

\* sort_values("observation_date")
SortValuesDate(df) == SortAscending(df)

trend_growth(df, c, g) ==
    LET subset == SortValuesDate(DropnaValueDate(
                     SelectSeq(df, LAMBDA r : /\ r.indicator_code = c
                                              /\ r.gender = g
                                              /\ r.record_type = "observation")))
        n == Len(subset)
    IN  IF n < 2 THEN None
        ELSE RSub(subset[n].value_numeric, subset[n - 1].value_numeric)

-----------------------------------------------------------------------------
(* Calls of trend_growth on bounded record tables.                          *)

MaxRows == 3

TrendDates == {NaT, <<2019, 6>>, <<2020, 1>>, <<2021, 1>>}

TrendValues == {NaN, Int2Rat(10), Int2Rat(15)}

TrendRows ==
    [record_type : {"observation"}, indicator_code : {"ACC_OWNERSHIP"}, gender : {"all"},
     value_numeric : TrendValues, observation_date : TrendDates]
    \cup
    {[record_type |-> "observation", indicator_code |-> "ACC_MM_ACCOUNT", gender |-> "all",
      value_numeric |-> Int2Rat(99), observation_date |-> <<2022, 1>>],
     [record_type |-> "observation", indicator_code |-> "ACC_OWNERSHIP", gender |-> "female",
      value_numeric |-> Int2Rat(99), observation_date |-> <<2022, 1>>],
     [record_type |-> "event", indicator_code |-> "ACC_OWNERSHIP", gender |-> "all",
      value_numeric |-> Int2Rat(99), observation_date |-> <<2022, 1>>]}

\* Data model: within an indicator_code and gender, at most one observation
\* per observation_date.
OneObservationPerDate(df) ==
    \A i, j \in 1..Len(df) :
        (/\ i # j
         /\ df[i].record_type = "observation" /\ df[j].record_type = "observation"
         /\ df[i].indicator_code = df[j].indicator_code
         /\ df[i].gender = df[j].gender
         /\ ~IsNaT(df[i].observation_date))
        => df[i].observation_date # df[j].observation_date

InitTrend ==
    /\ pc = "call"
    /\ data \in {df \in SeqsUpTo(TrendRows, MaxRows) : OneObservationPerDate(df)}
    /\ series_df = <<>>
    /\ years = <<>>
    /\ code = "NaN"
    /\ gender = "NaN"
    /\ ret = <<>>
    /\ outcome = "none"
    /\ DashIdle

CallTrendGrowth ==
    /\ pc = "call"
    /\ \E c \in {"ACC_OWNERSHIP", "ACC_MM_ACCOUNT"}, g \in {"all", "female"} :
          /\ code' = c
          /\ gender' = g
          /\ ret' = trend_growth(data, c, g)
    /\ outcome' = "returned"
    /\ pc' = "done"
    /\ UNCHANGED <<data, series_df, years>>
    /\ UNCHANGED dashVars

NextTrend == CallTrendGrowth

SpecTrend == InitTrend /\ [][NextTrend]_vars

-----------------------------------------------------------------------------
(* Claims about trend_growth, checked under SpecTrend.                      *)

\* Observation rows of the requested indicator_code and gender that have both
\* value_numeric and observation_date.
Qualifying == {i \in 1..Len(data) :
                 /\ data[i].record_type = "observation"
                 /\ data[i].indicator_code = code
                 /\ data[i].gender = gender
                 /\ ~IsNaN(data[i].value_numeric)
                 /\ ~IsNaT(data[i].observation_date)}

Latest(S) == CHOOSE i \in S :
               \A j \in S \ {i} : DateLess(data[j].observation_date, data[i].observation_date)

-----------------------------------------------------------------------------
(* build_event_effects                                                      *)

RECURSIVE Flatten(_)
Flatten(ss) == IF ss = <<>> THEN <<>> ELSE Head(ss) \o Flatten(Tail(ss))

Digit(ch) ==
    CASE ch = "0" -> 0 [] ch = "1" -> 1 [] ch = "2" -> 2 [] ch = "3" -> 3 [] ch = "4" -> 4
      [] ch = "5" -> 5 [] ch = "6" -> 6 [] ch = "7" -> 7 [] ch = "8" -> 8 [] ch = "9" -> 9
      [] OTHER -> -1

RECURSIVE DigitsValue(_)
DigitsValue(cs) ==
    IF cs = <<>> THEN 0 ELSE 10 * DigitsValue(SubSeq(cs, 1, Len(cs) - 1)) + Digit(cs[Len(cs)])

AllDigits(cs) == cs # <<>> /\ \A i \in 1..Len(cs) : Digit(cs[i]) >= 0

\* pd.to_numeric(cell, errors="coerce") on a text cell: an optionally signed
\* run of digits is its number, anything else (and the missing cell) is NaN.
ToNumeric(cell) ==
    IF AllDigits(cell) THEN Int2Rat(DigitsValue(cell))
    ELSE IF cell # <<>> /\ Head(cell) = "-" /\ AllDigits(Tail(cell))
    THEN Int2Rat(-DigitsValue(Tail(cell)))
    ELSE NaN

Fillna(x, default) == IF IsNaN(x) THEN default ELSE x

\* Python's int() of a float: truncation toward zero
IntOf(x) == IF x[1] < 0 THEN -((-x[1]) \div x[2]) ELSE x[1] \div x[2]

\* magnitude_map, by Series.map: a key outside the map gives NaN
MagnitudeMap(m) ==
    CASE m = "high" -> Rat(15, 100)
      [] m = "medium" -> Rat(8, 100)
      [] m = "low" -> Rat(3, 100)
      [] m = "negligible" -> Rat(1, 100)
      [] OTHER -> NaN

\* direction_map, by Series.map
DirectionMap(d) ==
    CASE d = "increase" -> Int2Rat(1)
      [] d = "decrease" -> Int2Rat(-1)
      [] d = "stabilize" -> Zero
      [] d = "mixed" -> Zero
      [] OTHER -> NaN

EffectSizeUnknownAsNegligible(m) == Fillna(MagnitudeMap(m), Rat(1, 100))

\* joined["effect_size"]
EffectSize(m) == Fillna(MagnitudeMap(m), Zero)

\* joined["direction_sign"]
DirectionSign(d) == Fillna(DirectionMap(d), Zero)

\* joined["effect"]
Effect(r) == RMul(EffectSize(r.impact_magnitude), DirectionSign(r.impact_direction))

\* joined["lag_months_num"]
LagMonthsNum(r) == Fillna(ToNumeric(r.lag_months), Zero)

\* links.merge(events[[record_id, observation_date, indicator]], left_on=parent_id,
\* right_on=record_id, how="left", suffixes=("", "_event")): every link row is
\* kept with its own columns under their own names; the event's columns that
\* clash with them get the suffix.
Merge(links, events) ==
    Flatten([i \in 1..Len(links) |->
        LET matches == SelectSeq(events, LAMBDA e : e.record_id = links[i].parent_id)
        IN  IF matches = <<>>
            THEN <<[link |-> links[i], observation_date |-> links[i].observation_date,
                    observation_date_event |-> NaT]>>
            ELSE [k \in 1..Len(matches) |->
                    [link |-> links[i], observation_date |-> links[i].observation_date,
                     observation_date_event |-> matches[k].observation_date]]])

\* np.linspace(a, b, 3)
Linspace3(a, b) ==
    LET step == RDiv(RSub(b, a), Int2Rat(2))
    IN  <<a, RAdd(a, step), RAdd(a, RMul(Int2Rat(2), step))>>

\* (date + pd.DateOffset(months=n)).year
YearAfterMonths(date, n) == (date[1] * 12 + (date[2] - 1) + n) \div 12

\* effect_series: <<year, value>> pairs
effect_series(event_date, effect, lag_months) ==
    IF IsNaT(event_date) THEN <<>>
    ELSE LET start == YearAfterMonths(event_date, IntOf(lag_months))
             ramp  == Linspace3(Rat(3, 10), Int2Rat(1))
         IN  [k \in 1..3 |-> [year |-> start + k - 1, effect |-> RMul(effect, ramp[k])]]

\* pd.DataFrame(effects).groupby("year")["effect"].sum()
GroupbyYearSum(effects) ==
    [y \in {effects[i].year : i \in 1..Len(effects)} |->
        LET grp == SelectSeq(effects, LAMBDA e : e.year = y)
        IN  RSum([i \in 1..Len(grp) |-> grp[i].effect])]

\* the empty pd.Series
EmptySeries == <<>>

build_event_effects(df, target_code) ==
    LET events == SelectSeq(df, LAMBDA r : r.record_type = "event")
        links  == SelectSeq(df, LAMBDA r : r.record_type = "impact_link")
    IN  IF events = <<>> \/ links = <<>> THEN EmptySeries
        ELSE LET joined  == Merge(links, events)
                 rows    == SelectSeq(joined, LAMBDA j : j.link.related_indicator = target_code)
                 effects == Flatten([i \in 1..Len(rows) |->
                                effect_series(rows[i].observation_date, Effect(rows[i].link),
                                              LagMonthsNum(rows[i].link))])
             IN  IF effects = <<>> THEN EmptySeries ELSE GroupbyYearSum(effects)

-----------------------------------------------------------------------------
(* Rows of the unified record table, by record_type. A column a row does    *)
(* not carry is missing: "NaN" for text, NaN for numbers, NaT for dates.    *)

ObservationRow(c, g, v, d) ==
    [record_type |-> "observation", record_id |-> "NaN", parent_id |-> "NaN",
     indicator_code |-> c, gender |-> g, value_numeric |-> v, observation_date |-> d,
     related_indicator |-> "NaN", impact_magnitude |-> "NaN", impact_direction |-> "NaN",
     lag_months |-> <<>>]

EventRow(id, d) ==
    [record_type |-> "event", record_id |-> id, parent_id |-> "NaN",
     indicator_code |-> "NaN", gender |-> "NaN", value_numeric |-> NaN, observation_date |-> d,
     related_indicator |-> "NaN", impact_magnitude |-> "NaN", impact_direction |-> "NaN",
     lag_months |-> <<>>]

ImpactLinkRow(parent, related, magnitude, direction, lag, d) ==
    [record_type |-> "impact_link", record_id |-> "NaN", parent_id |-> parent,
     indicator_code |-> "NaN", gender |-> "NaN", value_numeric |-> NaN, observation_date |-> d,
     related_indicator |-> related, impact_magnitude |-> magnitude,
     impact_direction |-> direction, lag_months |-> lag]

-----------------------------------------------------------------------------
(* Calls of build_event_effects on bounded record tables.                   *)

MaxLinks == 2

\* Event tables: record_id is unique; EVT_0002 has no parseable date.
EventTables ==
    {<<>>,
     <<EventRow("EVT_0001", <<2020, 1>>)>>,
     <<EventRow("EVT_0002", NaT)>>,
     <<EventRow("EVT_0001", <<2020, 1>>), EventRow("EVT_0002", NaT)>>}

\* magnitude, direction and raw lag_months of a link
LinkImpacts ==
    {<<"high", "increase", <<"1", "2">>>>,
     <<"low", "decrease", <<>>>>,
     <<"huge", "increase", <<"a", "b", "c">>>>,
     <<"medium", "up", <<"1", "2">>>>,
     <<"NaN", "decrease", <<"-", "6">>>>,
     <<"negligible", "NaN", <<"0">>>>}

LinkRows ==
    {ImpactLinkRow(p, t, m[1], m[2], m[3], d) :
        p \in {"EVT_0001", "EVT_0002"}, t \in {"ACC_OWNERSHIP", "ACC_MM_ACCOUNT"},
        m \in LinkImpacts, d \in {NaT, <<2019, 6>>}}

InitEffects ==
    /\ pc = "call"
    /\ \E ev \in EventTables, ln \in SeqsUpTo(LinkRows, MaxLinks) : data = ev \o ln
    /\ series_df = <<>>
    /\ years = <<>>
    /\ code = "NaN"
    /\ gender = "NaN"
    /\ ret = <<>>
    /\ outcome = "none"
    /\ DashIdle

CallBuildEventEffects ==
    /\ pc = "call"
    /\ \E c \in {"ACC_OWNERSHIP", "ACC_MM_ACCOUNT"} :
          /\ code' = c
          /\ ret' = build_event_effects(data, c)
    /\ outcome' = "returned"
    /\ pc' = "done"
    /\ UNCHANGED <<data, series_df, years, gender>>
    /\ UNCHANGED dashVars

NextEffects == CallBuildEventEffects

SpecEffects == InitEffects /\ [][NextEffects]_vars

-----------------------------------------------------------------------------
(* Claims about build_event_effects, checked under SpecEffects.             *)

Links == {i \in 1..Len(data) : data[i].record_type = "impact_link"}

Events == {i \in 1..Len(data) : data[i].record_type = "event"}

HasParent(i) == \E e \in Events : data[e].record_id = data[i].parent_id

\* observation_date of the parent event of link i
ParentDate(i) ==
    data[CHOOSE e \in Events : data[e].record_id = data[i].parent_id].observation_date

\* link i targets the requested indicator and its parent event has a date
Contributes(i) ==
    /\ data[i].related_indicator = code
    /\ HasParent(i)
    /\ ~IsNaT(ParentDate(i))

KnownMagnitudes == {"high", "medium", "low", "negligible"}

KnownDirections == {"increase", "decrease", "stabilize", "mixed"}

StatedSize(m) ==
    CASE m = "high" -> Rat(15, 100) [] m = "medium" -> Rat(8, 100)
      [] m = "low" -> Rat(3, 100) [] m = "negligible" -> Rat(1, 100) [] OTHER -> Zero

StatedSign(d) ==
    CASE d = "increase" -> Int2Rat(1) [] d = "decrease" -> Int2Rat(-1) [] OTHER -> Zero

StatedStart(i) == YearAfterMonths(ParentDate(i), IntOf(LagMonthsNum(data[i])))

StatedWeight(k) == CASE k = 0 -> Rat(30, 100) [] k = 1 -> Rat(65, 100) [] k = 2 -> Int2Rat(1)

RECURSIVE SumOver(_, _)
SumOver(S, y) ==
    IF S = {} THEN Zero
    ELSE LET i == CHOOSE j \in S : TRUE
         IN  RAdd(RMul(RMul(StatedSize(data[i].impact_magnitude),
                            StatedSign(data[i].impact_direction)),
                       StatedWeight(y - StatedStart(i))),
                  SumOver(S \ {i}, y))

\* The mapping the composition is stated to return: per year, the sum over the
\* contributing links whose three-year window holds the year.
StatedEffects ==
    LET window(i) == StatedStart(i)..(StatedStart(i) + 2)
        contributing == {i \in Links : Contributes(i)}
    IN  [y \in UNION {window(i) : i \in contributing} |->
            SumOver({i \in contributing : y \in window(i)}, y)]

\* C1: the returned mapping is, per year, the sum over the links that target
\* the indicator and whose parent event has a valid date of effect * weight,
\* the window starting at year(parent event's observation_date + lag_months).
C1_ComposeFromParentEventDate ==
    pc = "done" => ret = StatedEffects

\* C2: links with no parent event, with a parent event that has no date, or
\* with another related_indicator contribute no entry, whatever their own
\* other columns hold, and the call does not raise.
C2_ExcludedLinksContributeNothing ==
    (pc = "done" /\ \A i \in Links : ~Contributes(i)) =>
        (outcome = "returned" /\ DOMAIN ret = {})

InvalidLink(r) ==
    /\ r.record_type = "impact_link"
    /\ (r.impact_magnitude \notin KnownMagnitudes \/ r.impact_direction \notin KnownDirections)

ValueAt(mapping, y) == IF y \in DOMAIN mapping THEN mapping[y] ELSE Zero

\* C7: a link whose magnitude or direction is missing or outside the known
\* values has effect 0 and adds 0 to the total of every year: the totals are
\* those of the table without such links; the call does not raise.
C7_UnknownMagnitudeOrDirectionIsZero ==
    pc = "done" =>
        /\ outcome = "returned"
        /\ \A i \in Links : InvalidLink(data[i]) => Effect(data[i]) = Zero
        /\ LET without == build_event_effects(SelectSeq(data, LAMBDA r : ~InvalidLink(r)), code)
           IN  \A y \in DOMAIN ret \cup DOMAIN without : ValueAt(ret, y) = ValueAt(without, y)

C7_Witness ==
    /\ pc = "done"
    /\ \E i \in Links : /\ InvalidLink(data[i])
                        /\ data[i].impact_magnitude = "huge"
                        /\ data[i].related_indicator = code
                        /\ ~IsNaT(data[i].observation_date)
    /\ \E i \in Links : ~InvalidLink(data[i])
    /\ \E y \in DOMAIN ret : ret[y] # Zero

-----------------------------------------------------------------------------
(* The dashboard script: Forecasts tab and Inclusion Projections tab.       *)

\* load_data: df["year"] = df["observation_date"].dt.year
YearColumn(d) == IF IsNaT(d) THEN NaN ELSE Int2Rat(d[1])

\* obs = data[data["record_type"] == "observation"], with its year column
Obs(df) ==
    LET rows == SelectSeq(df, LAMBDA r : r.record_type = "observation")
    IN  [i \in 1..Len(rows) |->
            [indicator_code |-> rows[i].indicator_code, gender |-> rows[i].gender,
             value_numeric |-> rows[i].value_numeric,
             year |-> YearColumn(rows[i].observation_date)]]

AccessSeries(df) ==
    SelectSeq(Obs(df), LAMBDA r : r.indicator_code = "ACC_OWNERSHIP" /\ r.gender = "all")

\* the indicator the usage series is narrowed to
UsageSeriesCode(df) ==
    IF \E i \in 1..Len(Obs(df)) : Obs(df)[i].indicator_code = "USG_DIGITAL_PAYMENT"
    THEN "USG_DIGITAL_PAYMENT"
    ELSE "ACC_MM_ACCOUNT"

UsageSeries(df) ==
    SelectSeq(Obs(df), LAMBDA r : r.indicator_code = UsageSeriesCode(df))

UsageLabel(df) ==
    IF UsageSeriesCode(df) = "USG_DIGITAL_PAYMENT"
    THEN "USG_DIGITAL_PAYMENT"
    ELSE "ACC_MM_ACCOUNT (proxy)"

forecast_years == <<2025, 2026, 2027>>

\* fc["year"].map(effects).fillna(0), for one year
MapFillna0(effects, y) == Fillna(IF y \in DOMAIN effects THEN effects[y] ELSE NaN, Zero)

WithEventsOverwritingForecast(fc, effects) ==
    [i \in 1..Len(fc) |->
        [year |-> fc[i].year,
         forecast |-> RAdd(fc[i].forecast, MapFillna0(effects, fc[i].year)),
         ci_low |-> fc[i].ci_low, ci_high |-> fc[i].ci_high,
         forecast_event |-> RAdd(fc[i].forecast, MapFillna0(effects, fc[i].year))]]

\* fc["forecast_event"] = fc["forecast"] + fc["year"].map(effects).fillna(0)
WithEvents(fc, effects) ==
    [i \in 1..Len(fc) |->
        [year |-> fc[i].year, forecast |-> fc[i].forecast,
         ci_low |-> fc[i].ci_low, ci_high |-> fc[i].ci_high,
         forecast_event |-> RAdd(fc[i].forecast, MapFillna0(effects, fc[i].year))]]

\* fc["forecast_event"] = fc["forecast"]
WithoutEvents(fc) ==
    [i \in 1..Len(fc) |->
        [year |-> fc[i].year, forecast |-> fc[i].forecast,
         ci_low |-> fc[i].ci_low, ci_high |-> fc[i].ci_high,
         forecast_event |-> fc[i].forecast]]

scenario_factors(s) ==
    CASE s = "pessimistic" -> Rat(85, 100)
      [] s = "base" -> Int2Rat(1)
      [] s = "optimistic" -> Rat(115, 100)

\* access_fc["scenario"] = access_fc["forecast"] * scenario_factors[scenario]
WithScenario(fc, s) ==
    [i \in 1..Len(fc) |->
        [year |-> fc[i].year, forecast |-> fc[i].forecast,
         ci_low |-> fc[i].ci_low, ci_high |-> fc[i].ci_high,
         scenario |-> RMul(fc[i].forecast, scenario_factors(s))]]

\* The rows a loaded table is drawn from, in file order.
DashRowPool ==
    <<ObservationRow("ACC_OWNERSHIP", "all", Int2Rat(35), <<2017, 12>>),
      ObservationRow("ACC_OWNERSHIP", "all", Int2Rat(46), <<2021, 12>>),
      ObservationRow("ACC_OWNERSHIP", "all", Int2Rat(49), <<2024, 11>>),
      ObservationRow("ACC_MM_ACCOUNT", "all", Int2Rat(5), <<2021, 12>>),
      ObservationRow("ACC_MM_ACCOUNT", "all", Int2Rat(9), <<2024, 11>>),
      ObservationRow("ACC_MM_ACCOUNT", "female", Int2Rat(6), <<2024, 11>>),
      ObservationRow("USG_DIGITAL_PAYMENT", "all", Int2Rat(20), <<2021, 12>>),
      ObservationRow("USG_DIGITAL_PAYMENT", "all", Int2Rat(35), <<2024, 11>>),
      EventRow("EVT_0001", <<2021, 5>>),
      ImpactLinkRow("EVT_0001", "ACC_OWNERSHIP", "high", "increase", <<"1", "2">>, <<2024, 1>>),
      ImpactLinkRow("EVT_0001", "ACC_MM_ACCOUNT", "medium", "increase", <<>>, <<2023, 6>>),
      ImpactLinkRow("EVT_0001", "USG_DIGITAL_PAYMENT", "low", "decrease", <<"2", "4">>, <<2024, 1>>)>>

RECURSIVE Pick(_, _)
Pick(pool, S) ==
    IF pool = <<>> THEN <<>>
    ELSE (IF Len(pool) \in S THEN Pick(SubSeq(pool, 1, Len(pool) - 1), S) \o <<pool[Len(pool)]>>
          ELSE Pick(SubSeq(pool, 1, Len(pool) - 1), S))

InitDash ==
    /\ pc = "loaded"
    /\ \E S \in SUBSET (1..Len(DashRowPool)) : data = Pick(DashRowPool, S)
    /\ series_df = <<>>
    /\ years = <<>>
    /\ code = "NaN"
    /\ gender = "NaN"
    /\ ret = <<>>
    /\ outcome = "none"
    /\ DashIdle

\* Forecasts tab, up to the two fits.
ForecastsFit ==
    /\ pc = "loaded"
    /\ usage_label' = UsageLabel(data)
    /\ access_fc' = fit_linear_forecast(AccessSeries(data), forecast_years)
    /\ usage_fc' = fit_linear_forecast(UsageSeries(data), forecast_years)
    /\ pc' = "fitted"
    /\ UNCHANGED <<data, series_df, years, code, gender, ret, outcome>>
    /\ UNCHANGED <<use_events, access_effects, usage_effects, scenario>>

\* Forecasts tab, the "Include event effects" checkbox and what follows it.
ForecastsEvents ==
    /\ pc = "fitted"
    /\ \E checked \in BOOLEAN :
          /\ use_events' = checked
          /\ IF checked
             THEN /\ access_effects' = build_event_effects(data, "ACC_OWNERSHIP")
                  /\ usage_effects' = build_event_effects(data, "ACC_MM_ACCOUNT")
                  /\ access_fc' = WithEvents(access_fc, access_effects')
                  /\ usage_fc' = WithEvents(usage_fc, usage_effects')
             ELSE /\ access_fc' = WithoutEvents(access_fc)
                  /\ usage_fc' = WithoutEvents(usage_fc)
                  /\ UNCHANGED <<access_effects, usage_effects>>
    /\ pc' = "adjusted"
    /\ UNCHANGED <<data, series_df, years, code, gender, ret, outcome>>
    /\ UNCHANGED <<usage_label, scenario>>

\* Inclusion Projections tab: the scenario selection and the scaled forecast.
Projections ==
    /\ pc = "adjusted"
    /\ \E s \in {"pessimistic", "base", "optimistic"} :
          /\ scenario' = s
          /\ access_fc' = WithScenario(fit_linear_forecast(AccessSeries(data), forecast_years), s)
    /\ pc' = "projected"
    /\ UNCHANGED <<data, series_df, years, code, gender, ret, outcome>>
    /\ UNCHANGED <<usage_fc, usage_label, use_events, access_effects, usage_effects>>

NextDash == ForecastsFit \/ ForecastsEvents \/ Projections

SpecDash == InitDash /\ [][NextDash]_vars

-----------------------------------------------------------------------------
(* Claims about the dashboard script, checked under SpecDash.               *)

\* C3: with event effects included, the scenario-scaled value of every target
\* year is factor * (forecast + event effect of that year, 0 where absent).
C3_ScenarioScalesEventAdjustedForecast ==
    (pc = "projected" /\ use_events) =>
        \A i \in 1..Len(access_fc) :
            access_fc[i].scenario =
                RMul(scenario_factors(scenario),
                     RAdd(access_fc[i].forecast, ValueAt(access_effects, access_fc[i].year)))

TargetsIndicator(df, c) ==
    \E i \in 1..Len(df) : df[i].record_type = "impact_link" /\ df[i].related_indicator = c

\* The event-adjustment step on one forecast table: fc after the step, the
\* table the fit produced, and the mapping that was added.
AdjustedAsStated(fc, fitted, effects) ==
    /\ Len(fc) = Len(fitted)
    /\ \A i \in 1..Len(fc) :
          /\ fc[i].year = fitted[i].year
          /\ fc[i].forecast = fitted[i].forecast
          /\ fc[i].ci_low = fitted[i].ci_low
          /\ fc[i].ci_high = fitted[i].ci_high
          /\ fc[i].forecast_event =
                IF use_events THEN RAdd(fc[i].forecast, ValueAt(effects, fc[i].year))
                ELSE fc[i].forecast

\* C8: with no link targeting an indicator its mapping is empty and
\* forecast_event = forecast for every target year; a target year missing
\* from a mapping counts as +0; the step leaves forecast, ci_low and ci_high
\* as fit_linear_forecast produced them.
C8_MissingYearIsZeroAndFrame ==
    pc = "adjusted" =>
        /\ AdjustedAsStated(access_fc, fit_linear_forecast(AccessSeries(data), forecast_years),
                            access_effects)
        /\ AdjustedAsStated(usage_fc, fit_linear_forecast(UsageSeries(data), forecast_years),
                            usage_effects)
        /\ (use_events /\ ~TargetsIndicator(data, "ACC_OWNERSHIP")) =>
              /\ access_effects = EmptySeries
              /\ \A i \in 1..Len(access_fc) : access_fc[i].forecast_event = access_fc[i].forecast
        /\ (use_events /\ ~TargetsIndicator(data, "ACC_MM_ACCOUNT")) =>
              /\ usage_effects = EmptySeries
              /\ \A i \in 1..Len(usage_fc) : usage_fc[i].forecast_event = usage_fc[i].forecast

C8_Witness ==
    /\ pc = "adjusted"
    /\ use_events
    /\ TargetsIndicator(data, "ACC_MM_ACCOUNT")
    /\ ~TargetsIndicator(data, "ACC_OWNERSHIP")
    /\ access_effects = EmptySeries
    /\ ~IsNaN(access_fc[1].forecast)
    /\ access_fc[1].forecast_event = access_fc[1].forecast
    /\ 2025 \in DOMAIN usage_effects
    /\ 2027 \notin DOMAIN usage_effects
    /\ ~IsNaN(usage_fc[1].forecast)
    /\ usage_fc[1].forecast_event # usage_fc[1].forecast
    /\ usage_fc[3].forecast_event = usage_fc[3].forecast

\* C10: the mapping added to a forecast was composed for the indicator_code
\* whose observation series the forecast was fitted on, for the access and
\* for the usage forecast.
C10_EffectsComposedForFittedIndicator ==
    (pc = "adjusted" /\ use_events) =>
        /\ access_effects = build_event_effects(data, "ACC_OWNERSHIP")
        /\ usage_effects = build_event_effects(data,
              IF usage_label = "USG_DIGITAL_PAYMENT" THEN "USG_DIGITAL_PAYMENT"
              ELSE "ACC_MM_ACCOUNT")

====
